---- MODULE Spec2Model ----
(***************************************************************************)
(* Model of the runtime loaders of inwasm: InWasm (with memoized bytes and *)
(* module) and its predecessor EmWasm, together with the base64 decoder    *)
(* _dec, the import shaping helper _env, the compile-time capture context  *)
(* and the host WebAssembly engine the accessors drive.                    *)
(***************************************************************************)
EXTENDS Integers, Sequences, FiniteSets, TLC

\* ------------------------------------------------------------------ bounds
\* the number of entry-point calls and of accessor invocations in a behaviour
MaxCalls == 2
MaxInvs == 2
\* the length of the byte sequences handed to the codec, and the number of
\* times one base64 text is decoded
MaxBytes == 3
MaxDecodes == 2
\* the number of entry-point calls when the dispatch is exercised on its own
MaxDispatchCalls == 1
\* the number of entry-point calls and of accessor invocations when one
\* accessor is followed through a longer history
MaxRaceCalls == 1
MaxRaceInvs == 3

\* --------------------------------------------------------------- JS values
\* A JS value is a tagged record; ty = "undefined" stands for a missing field.
Undef == [ty |-> "undefined", v |-> ""]
Str(x) == [ty |-> "string", v |-> x]
\* a string given by its code units (the field `d`)
UndefD == [ty |-> "undefined", cs |-> << >>]
StrD(cs) == [ty |-> "string", cs |-> cs]
UndefN == [ty |-> "undefined", n |-> 0]
Num(n) == [ty |-> "number", n |-> n]
UndefB == [ty |-> "undefined", b |-> FALSE]
Bool(b) == [ty |-> "boolean", b |-> b]

\* enum OutputType
OT_INSTANCE == 0
OT_MODULE == 1
OT_BYTES == 2

\* JS truthiness of a string-or-undefined value
Truthy(x) == x.ty # "undefined" /\ x.v # ""

\* JS truthiness of a value holding a sequence of code units (the field `d`)
TruthyD(x) == x.ty = "string" /\ Len(x.cs) > 0
\* JS truthiness of a boolean-or-undefined value (the field `s`)
TruthyB(x) == x.ty = "boolean" /\ x.b
\* t === OutputType.X
TagIs(t, x) == t.ty = "number" /\ t.n = x

\* ------------------------------------------------------------------ base64
\* value of one code unit in the base64 alphabet, -1 when it is not in it
B64Val(c) ==
  IF c >= 65 /\ c <= 90 THEN c - 65
  ELSE IF c >= 97 /\ c <= 122 THEN c - 71
  ELSE IF c >= 48 /\ c <= 57 THEN c + 4
  ELSE IF c = 43 THEN 62
  ELSE IF c = 47 THEN 63
  ELSE -1

\* Buffer.from reads only the low byte of a code unit
LowByte(c) == c % 256

\* Buffer.from additionally accepts the url-safe digits '-' and '_'
B64ValNode(c) ==
  IF LowByte(c) = 45 THEN 62 ELSE IF LowByte(c) = 95 THEN 63 ELSE B64Val(LowByte(c))

IsSpace(c) == c \in {9, 10, 12, 13, 32}

RECURSIVE SextetsToBytes(_)
\* sextets to octets: 4 -> 3, trailing 3 -> 2, trailing 2 -> 1, trailing 1 -> 0
SextetsToBytes(q) ==
  IF Len(q) >= 4 THEN
    << (q[1] * 4 + (q[2] \div 16)) % 256,
       ((q[2] % 16) * 16 + (q[3] \div 4)) % 256,
       ((q[3] % 4) * 64 + q[4]) % 256 >> \o SextetsToBytes(SubSeq(q, 5, Len(q)))
  ELSE IF Len(q) = 3 THEN
    << (q[1] * 4 + (q[2] \div 16)) % 256,
       ((q[2] % 16) * 16 + (q[3] \div 4)) % 256 >>
  ELSE IF Len(q) = 2 THEN
    << (q[1] * 4 + (q[2] \div 16)) % 256 >>
  ELSE << >>

RECURSIVE UpToPad(_)
\* the prefix of s before the first code unit whose low byte is '='
UpToPad(s) ==
  IF s = << >> \/ LowByte(s[1]) = 61 THEN << >> ELSE << s[1] >> \o UpToPad(Tail(s))

RECURSIVE NodeSextets(_)
\* the base64 digits of s, every other code unit skipped
NodeSextets(s) ==
  IF s = << >> THEN << >>
  ELSE IF B64ValNode(s[1]) >= 0 THEN << B64ValNode(s[1]) >> \o NodeSextets(Tail(s))
  ELSE NodeSextets(Tail(s))

\* Buffer.from(s, 'base64'): lenient, stops at the first '='
BufferFromBase64(s) == SextetsToBytes(NodeSextets(UpToPad(s)))

RECURSIVE StripSpace(_)
StripSpace(s) ==
  IF s = << >> THEN << >>
  ELSE IF IsSpace(s[1]) THEN StripSpace(Tail(s))
  ELSE << s[1] >> \o StripSpace(Tail(s))

\* forgiving-base64: at length % 4 = 0 one or two trailing '=' are removed
StripPad(s) ==
  IF Len(s) > 0 /\ Len(s) % 4 = 0 /\ s[Len(s)] = 61
  THEN IF Len(s) > 1 /\ s[Len(s) - 1] = 61
       THEN SubSeq(s, 1, Len(s) - 2)
       ELSE SubSeq(s, 1, Len(s) - 1)
  ELSE s

\* atob(s): [ok |-> FALSE] when it throws, else the binary string's code units
Atob(s) ==
  LET u == StripPad(StripSpace(s)) IN
  IF Len(u) % 4 = 1 \/ \E i \in 1..Len(u) : B64Val(u[i]) < 0
  THEN [ok |-> FALSE, bytes |-> << >>]
  ELSE [ok |-> TRUE, bytes |-> SextetsToBytes([i \in 1..Len(u) |-> B64Val(u[i])])]

\* a fallback whose copy loop stops one code unit early: the last byte stays 0
Dec_ShortLoop(s, buf) ==
  IF buf THEN [ok |-> TRUE, bytes |-> BufferFromBase64(s)]
  ELSE LET a == Atob(s) IN
       IF a.ok /\ Len(a.bytes) > 0
       THEN [ok |-> TRUE, bytes |-> [a.bytes EXCEPT ![Len(a.bytes)] = 0]]
       ELSE a

\* _dec(s), buf = (typeof Buffer !== 'undefined')
Dec(s, buf) ==
  IF buf THEN [ok |-> TRUE, bytes |-> BufferFromBase64(s)]
  ELSE Atob(s)

\* ----------------------------------------------------------------- encoder
\* The compile step writes `d` as the standard base64 text of the wasm bytes
\* (alphabet A-Z a-z 0-9 + /, padded with '=' to a multiple of four).
B64Char(i) ==
  IF i < 26 THEN 65 + i
  ELSE IF i < 52 THEN 71 + i
  ELSE IF i < 62 THEN i - 4
  ELSE IF i = 62 THEN 43 ELSE 47

RECURSIVE Base64Encode(_)
Base64Encode(b) ==
  IF Len(b) = 0 THEN << >>
  ELSE IF Len(b) = 1 THEN
    << B64Char(b[1] \div 4), B64Char((b[1] % 4) * 16), 61, 61 >>
  ELSE IF Len(b) = 2 THEN
    << B64Char(b[1] \div 4), B64Char((b[1] % 4) * 16 + (b[2] \div 16)),
       B64Char((b[2] % 16) * 4), 61 >>
  ELSE
    << B64Char(b[1] \div 4), B64Char((b[1] % 4) * 16 + (b[2] \div 16)),
       B64Char((b[2] % 16) * 4 + (b[3] \div 64)), B64Char(b[3] % 64) >>
    \o Base64Encode(SubSeq(b, 4, Len(b)))

\* the byte sequences handed to the encoder: every length up to MaxBytes,
\* every byte value at every position, the other positions 0 or 255
ByteSample == {0, 255}
ByteInputs ==
  {<< >>} \cup UNION {
    {[i \in 1..n |-> IF i = k THEN x ELSE f[i]] :
       f \in [1..n -> ByteSample], k \in 1..n, x \in 0..255} : n \in 1..MaxBytes}

\* ------------------------------------------------------------------- _env
NoImports == [present |-> FALSE, key |-> "", val |-> Undef]
\* an _env that always builds the object: { env: env }
Env_AlwaysObject(e) == [present |-> TRUE, key |-> "env", val |-> e]
\* return env ? { env: env } : undefined
Env(e) == IF Truthy(e) THEN [present |-> TRUE, key |-> "env", val |-> e] ELSE NoImports

\* ------------------------------------------------------------- definitions
\* "AGFzbQ==" : the bytes 00 61 73 6d;  "AGE=" : the bytes 00 61
D_wasm == << 65, 71, 70, 122, 98, 81, 61, 61 >>
D_two == << 65, 71, 69, 61 >>

Loaders == {"InWasm", "EmWasm"}

\* a compiled-shape literal {t, s, d, e}
Compiled(t, s, cs, e) ==
  [name |-> "", t |-> Num(t), s |-> Bool(s), d |-> StrD(cs), e |-> e]
\* an authoring-shape literal: it has none of t, s, d, e
Authoring(name) ==
  [name |-> name, t |-> UndefN, s |-> UndefB, d |-> UndefD, e |-> Undef]

AuthoringDefs == {Authoring("adder")}
CompiledDefs ==
  {Compiled(t, s, D_wasm, Undef) : t \in {OT_INSTANCE, OT_MODULE}, s \in BOOLEAN}
  \cup {Compiled(OT_INSTANCE, s, D_wasm, Str("env")) : s \in BOOLEAN}
  \cup {Compiled(OT_INSTANCE, TRUE, D_wasm, Str("imp")),
        Compiled(OT_INSTANCE, FALSE, D_wasm, Str(""))}
  \cup {Compiled(OT_BYTES, TRUE, D_two, Undef), Compiled(OT_BYTES, FALSE, D_wasm, Undef)}
\* literals that carry a `d` holding the empty string
EmptyDDefs == {Compiled(OT_BYTES, TRUE, << >>, Undef)}
Defs == AuthoringDefs \cup CompiledDefs \cup EmptyDDefs
\* the literals handed to the older loader
EmDefs ==
  {Authoring("adder")}
  \cup {Compiled(t, s, D_wasm, Str("env")) : t \in {OT_INSTANCE, OT_MODULE, OT_BYTES}, s \in BOOLEAN}

\* ------------------------------------------------------------------- state
\* The two loaders live in two packages that share nothing (each has its own
\* _dec, _env and context global), so a behaviour follows one of them: pkg.
\* typeof Buffer is read where the code reads it: an input of the action.
\* The `d` strings are valid base64, as the compile step writes them, and the
\* empty string.
VARIABLES
  pkg,       \* the package the program links: its loader is InWasm or EmWasm
  ctx,       \* the loader's capture context (_wasmCtx, _emwasmCtx) is defined
  captured,  \* the definitions handed to the capture context's add, in order
  entries,   \* the entry-point calls made so far and their outcome
  codec,     \* the codec exercised on its own: bytes b, their base64 text s,
             \*   and what _dec made of s (idle while the loaders run)
  closures   \* the accessor closures, in order of creation; each holds
             \*   t, s, d, e    the fields destructured from the definition
             \*   bytes, mod    the memo slots (0 = unset, else an object of heap)
             \*   heap          the objects its operations created; an object's
             \*                 identity is the closure and its index in heap
             \*   invs          its accessor invocations and what they returned
             \*   pending       its asynchronous host operations in flight

vars == << pkg, ctx, captured, entries, closures, codec >>

\* ------------------------------------------------------------ host objects
BytesObj(data) == [kind |-> "bytes", data |-> data, src |-> 0, imp |-> NoImports]
ModuleObj(h, b) == [kind |-> "module", data |-> h[b].data, src |-> b, imp |-> NoImports]
InstanceObj(m, imp) == [kind |-> "instance", data |-> << >>, src |-> m, imp |-> imp]

\* error objects: the one atob throws on a malformed text, and the one the
\* host engine raises when the operation `op` fails (an object of its own per
\* failing operation; only its identity matters here)
NoError == [by |-> "none", op |-> "none"]
DecError == [by |-> "atob", op |-> "none"]
HostError(op) == [by |-> "host", op |-> op]

\* what an accessor invocation hands back
\* (err: the error object the caller got, for an invocation that failed)
Returned(v, path) ==
  [future |-> FALSE, status |-> "returned", val |-> v, path |-> path, err |-> NoError]
Threw(path, err) ==
  [future |-> FALSE, status |-> "threw", val |-> 0, path |-> path, err |-> err]
Resolved(v, path) ==
  [future |-> TRUE, status |-> "resolved", val |-> v, path |-> path, err |-> NoError]
Pending(path) ==
  [future |-> TRUE, status |-> "pending", val |-> 0, path |-> path, err |-> NoError]

NoOp == [kind |-> "none", arg |-> 0, imp |-> NoImports]
HostOp(kind, arg, imp) == [kind |-> kind, arg |-> arg, imp |-> imp]

\* the result of running one accessor: closure, heap, returned value, host op
Res(cl, h, inv, op) == [cl |-> cl, heap |-> h, inv |-> inv, op |-> op]

\* let bytes; let mod;  (0 = unset) with the counters of the calls made
NewClosure(loader, def) ==
  [loader |-> loader, t |-> def.t, s |-> def.s, d |-> def.d, e |-> def.e,
   bytes |-> 0, mod |-> 0, heap |-> << >>, invs |-> << >>, pending |-> {},
   nDec |-> 0, nModule |-> 0, nCompile |-> 0,
   nInstance |-> 0, nInstBytes |-> 0, nInstMod |-> 0]

\* ------------------------------------------------------- InWasm accessors
\* _dec(d) on every evaluation: the bytes slot is written but never read
EnsureBytes_NoMemo(cl, h, buf) ==
  LET r == Dec(cl.d.cs, buf) IN
  IF r.ok
  THEN [ok |-> TRUE, err |-> NoError,
        cl |-> [cl EXCEPT !.bytes = Len(h) + 1, !.nDec = @ + 1],
        heap |-> Append(h, BytesObj(r.bytes))]
  ELSE [ok |-> FALSE, err |-> DecError, cl |-> [cl EXCEPT !.nDec = @ + 1], heap |-> h]

\* bytes || (bytes = _dec(d))
EnsureBytes(cl, h, buf) ==
  IF cl.bytes # 0 THEN [ok |-> TRUE, err |-> NoError, cl |-> cl, heap |-> h]
  ELSE LET r == Dec(cl.d.cs, buf) IN
       IF r.ok
       THEN [ok |-> TRUE, err |-> NoError,
             cl |-> [cl EXCEPT !.bytes = Len(h) + 1, !.nDec = @ + 1],
             heap |-> Append(h, BytesObj(r.bytes))]
       ELSE [ok |-> FALSE, err |-> DecError, cl |-> [cl EXCEPT !.nDec = @ + 1], heap |-> h]

\* mod = new W.Module(bytes || (bytes = _dec(d))): the slot is written on every
\* evaluation, whether or not it already holds a module
EnsureModule_Overwrite(cl, h, buf, okM) ==
  LET b == EnsureBytes(cl, h, buf) IN
  IF ~b.ok THEN b
  ELSE IF okM
  THEN [ok |-> TRUE, err |-> NoError,
        cl |-> [b.cl EXCEPT !.mod = Len(b.heap) + 1, !.nModule = @ + 1],
        heap |-> Append(b.heap, ModuleObj(b.heap, b.cl.bytes))]
  ELSE [ok |-> FALSE, err |-> HostError("newModule"), cl |-> [b.cl EXCEPT !.nModule = @ + 1], heap |-> b.heap]

\* mod || (mod = new W.Module(bytes = _dec(d))): the bytes slot is not read
EnsureModule_Redecode(cl, h, buf, okM) ==
  IF cl.mod # 0 THEN [ok |-> TRUE, err |-> NoError, cl |-> cl, heap |-> h]
  ELSE LET b == EnsureBytes([cl EXCEPT !.bytes = 0], h, buf) IN
       IF ~b.ok THEN b
       ELSE IF okM
       THEN [ok |-> TRUE, err |-> NoError,
             cl |-> [b.cl EXCEPT !.mod = Len(b.heap) + 1, !.nModule = @ + 1],
             heap |-> Append(b.heap, ModuleObj(b.heap, b.cl.bytes))]
       ELSE [ok |-> FALSE, err |-> HostError("newModule"), cl |-> [b.cl EXCEPT !.nModule = @ + 1], heap |-> b.heap]

\* mod || (mod = new W.Module(bytes || _dec(d))): the decoded bytes are handed
\* to the host without being stored in the bytes slot
EnsureModule_BytesNotStored(cl, h, buf, okM) ==
  IF cl.mod # 0 THEN [ok |-> TRUE, err |-> NoError, cl |-> cl, heap |-> h]
  ELSE LET b == EnsureBytes(cl, h, buf) IN
       IF ~b.ok THEN b
       ELSE IF okM
       THEN [ok |-> TRUE, err |-> NoError,
             cl |-> [b.cl EXCEPT !.mod = Len(b.heap) + 1, !.nModule = @ + 1,
                                 !.bytes = cl.bytes],
             heap |-> Append(b.heap, ModuleObj(b.heap, b.cl.bytes))]
       ELSE [ok |-> FALSE, err |-> HostError("newModule"), cl |-> [b.cl EXCEPT !.nModule = @ + 1, !.bytes = cl.bytes],
             heap |-> b.heap]

\* mod || (mod = new W.Module(bytes || (bytes = _dec(d)))); okM: the host accepts
EnsureModule(cl, h, buf, okM) ==
  IF cl.mod # 0 THEN [ok |-> TRUE, err |-> NoError, cl |-> cl, heap |-> h]
  ELSE LET b == EnsureBytes(cl, h, buf) IN
       IF ~b.ok THEN b
       ELSE IF okM
       THEN [ok |-> TRUE, err |-> NoError,
             cl |-> [b.cl EXCEPT !.mod = Len(b.heap) + 1, !.nModule = @ + 1],
             heap |-> Append(b.heap, ModuleObj(b.heap, b.cl.bytes))]
       ELSE [ok |-> FALSE, err |-> HostError("newModule"), cl |-> [b.cl EXCEPT !.nModule = @ + 1], heap |-> b.heap]

\* () => bytes || (bytes = _dec(d))
BytesSync(cl, h, buf) ==
  LET b == EnsureBytes(cl, h, buf) IN
  IF b.ok THEN Res(b.cl, b.heap, Returned(b.cl.bytes, "bytes"), NoOp)
  ELSE Res(b.cl, b.heap, Threw("bytes", b.err), NoOp)

\* () => Promise.resolve(bytes || (bytes = _dec(d)))
BytesAsync(cl, h, buf) ==
  LET b == EnsureBytes(cl, h, buf) IN
  IF b.ok THEN Res(b.cl, b.heap, Resolved(b.cl.bytes, "bytes"), NoOp)
  ELSE Res(b.cl, b.heap, Threw("bytes", b.err), NoOp)

\* () => mod = new W.Module(bytes || (bytes = _dec(d))): mod is never read
ModuleSync_NoMemo(cl, h, buf, okM) ==
  LET m == EnsureModule([cl EXCEPT !.mod = 0], h, buf, okM) IN
  IF m.ok THEN Res(m.cl, m.heap, Returned(m.cl.mod, "newModule"), NoOp)
  ELSE Res([m.cl EXCEPT !.mod = cl.mod], m.heap, Threw("newModule", m.err), NoOp)

\* an accessor that catches what the compile throws and throws an error of its own
ModuleSync_Rethrows(cl, h, buf, okM) ==
  IF cl.mod # 0 THEN Res(cl, h, Returned(cl.mod, "cached"), NoOp)
  ELSE LET m == EnsureModule(cl, h, buf, okM) IN
       IF m.ok THEN Res(m.cl, m.heap, Returned(m.cl.mod, "newModule"), NoOp)
       ELSE Res(m.cl, m.heap, Threw("newModule", [by |-> "loader", op |-> "newModule"]), NoOp)

\* () => mod || (mod = new W.Module(bytes || (bytes = _dec(d))))
ModuleSync(cl, h, buf, okM) ==
  IF cl.mod # 0 THEN Res(cl, h, Returned(cl.mod, "cached"), NoOp)
  ELSE LET m == EnsureModule(cl, h, buf, okM) IN
       IF m.ok THEN Res(m.cl, m.heap, Returned(m.cl.mod, "newModule"), NoOp)
       ELSE Res(m.cl, m.heap, Threw("newModule", m.err), NoOp)

\* () => mod || W.compile(...).then(...): the cached module is handed back bare
ModuleAsync_NoWrap(cl, h, buf) ==
  IF cl.mod # 0 THEN Res(cl, h, Returned(cl.mod, "cached"), NoOp)
  ELSE LET b == EnsureBytes(cl, h, buf) IN
       IF ~b.ok THEN Res(b.cl, b.heap, Threw("compile", b.err), NoOp)
       ELSE Res([b.cl EXCEPT !.nCompile = @ + 1], b.heap, Pending("compile"),
                HostOp("compile", b.cl.bytes, NoImports))

\* () => W.compile(bytes || (bytes = _dec(d))).then(...): mod is never read
ModuleAsync_NoMemo(cl, h, buf) ==
  LET b == EnsureBytes(cl, h, buf) IN
  IF ~b.ok THEN Res(b.cl, b.heap, Threw("compile", b.err), NoOp)
  ELSE Res([b.cl EXCEPT !.nCompile = @ + 1], b.heap, Pending("compile"),
           HostOp("compile", b.cl.bytes, NoImports))

\* an accessor that hands back a future no host operation stands behind
ModuleAsync_Abandon(cl, h, buf) ==
  IF cl.mod # 0 THEN Res(cl, h, Resolved(cl.mod, "cached"), NoOp)
  ELSE LET b == EnsureBytes(cl, h, buf) IN
       IF ~b.ok THEN Res(b.cl, b.heap, Threw("compile", b.err), NoOp)
       ELSE Res([b.cl EXCEPT !.nCompile = @ + 1], b.heap, Pending("compile"), NoOp)

\* () => mod ? Promise.resolve(mod) : W.compile(bytes || (bytes = _dec(d))).then(...)
ModuleAsync(cl, h, buf) ==
  IF cl.mod # 0 THEN Res(cl, h, Resolved(cl.mod, "cached"), NoOp)
  ELSE LET b == EnsureBytes(cl, h, buf) IN
       IF ~b.ok THEN Res(b.cl, b.heap, Threw("compile", b.err), NoOp)
       ELSE Res([b.cl EXCEPT !.nCompile = @ + 1], b.heap, Pending("compile"),
                HostOp("compile", b.cl.bytes, NoImports))

\* () => new W.Instance(new W.Module(bytes || ...), _env(e)): a module per call
InstanceSync_Recompile(cl, h, buf, okM, okI) ==
  LET m == EnsureModule([cl EXCEPT !.mod = 0], h, buf, okM) IN
  IF ~m.ok THEN Res([m.cl EXCEPT !.mod = cl.mod], m.heap, Threw("newModule", m.err), NoOp)
  ELSE IF okI
  THEN Res([m.cl EXCEPT !.nInstance = @ + 1],
           Append(m.heap, InstanceObj(m.cl.mod, Env(cl.e))),
           Returned(Len(m.heap) + 1, "newInstance"), NoOp)
  ELSE Res([m.cl EXCEPT !.nInstance = @ + 1], m.heap, Threw("newInstance", HostError("newInstance")), NoOp)

\* () => new W.Instance(mod || (mod = new W.Module(...)), _env(e)); okI: the host links
InstanceSync(cl, h, buf, okM, okI) ==
  LET m == EnsureModule(cl, h, buf, okM) IN
  IF ~m.ok THEN Res(m.cl, m.heap, Threw("newModule", m.err), NoOp)
  ELSE IF okI
  THEN Res([m.cl EXCEPT !.nInstance = @ + 1],
           Append(m.heap, InstanceObj(m.cl.mod, Env(cl.e))),
           Returned(Len(m.heap) + 1, "newInstance"), NoOp)
  ELSE Res([m.cl EXCEPT !.nInstance = @ + 1], m.heap, Threw("newInstance", HostError("newInstance")), NoOp)

\* an accessor that shares the instantiation in flight instead of starting one
InstanceAsync_Dedup(cl, h, buf) ==
  IF cl.mod # 0
  THEN Res([cl EXCEPT !.nInstMod = @ + 1], h, Pending("instMod"),
           HostOp("instMod", cl.mod, Env(cl.e)))
  ELSE IF cl.pending # {} THEN Res(cl, h, Pending("instBytes"), NoOp)
  ELSE LET b == EnsureBytes(cl, h, buf) IN
       IF ~b.ok THEN Res(b.cl, b.heap, Threw("instBytes", b.err), NoOp)
       ELSE Res([b.cl EXCEPT !.nInstBytes = @ + 1], b.heap, Pending("instBytes"),
                HostOp("instBytes", b.cl.bytes, Env(cl.e)))

\* () => mod ? W.instantiate(mod, _env(e))
\*           : W.instantiate(bytes || (bytes = _dec(d)), _env(e)).then(...)
InstanceAsync(cl, h, buf) ==
  IF cl.mod # 0
  THEN Res([cl EXCEPT !.nInstMod = @ + 1], h, Pending("instMod"),
           HostOp("instMod", cl.mod, Env(cl.e)))
  ELSE LET b == EnsureBytes(cl, h, buf) IN
       IF ~b.ok THEN Res(b.cl, b.heap, Threw("instBytes", b.err), NoOp)
       ELSE Res([b.cl EXCEPT !.nInstBytes = @ + 1], b.heap, Pending("instBytes"),
                HostOp("instBytes", b.cl.bytes, Env(cl.e)))

\* a dispatch that tests for INSTANCE and lets every other tag fall to BYTES
InWasmAccessor_DefaultBytes(cl, h, buf, okM, okI) ==
  IF TagIs(cl.t, OT_INSTANCE)
  THEN IF TruthyB(cl.s) THEN InstanceSync(cl, h, buf, okM, okI)
       ELSE InstanceAsync(cl, h, buf)
  ELSE IF TagIs(cl.t, OT_MODULE)
  THEN IF TruthyB(cl.s) THEN ModuleSync(cl, h, buf, okM) ELSE ModuleAsync(cl, h, buf)
  ELSE IF TruthyB(cl.s) THEN BytesSync(cl, h, buf) ELSE BytesAsync(cl, h, buf)

\* the accessor InWasm returned for {t, s, d, e}
InWasmAccessor(cl, h, buf, okM, okI) ==
  IF TagIs(cl.t, OT_BYTES)
  THEN IF TruthyB(cl.s) THEN BytesSync(cl, h, buf) ELSE BytesAsync(cl, h, buf)
  ELSE IF TagIs(cl.t, OT_MODULE)
  THEN IF TruthyB(cl.s) THEN ModuleSync(cl, h, buf, okM) ELSE ModuleAsync(cl, h, buf)
  ELSE IF TruthyB(cl.s) THEN InstanceSync(cl, h, buf, okM, okI)
  ELSE InstanceAsync(cl, h, buf)

\* ------------------------------------------------------- EmWasm accessors
\* EmWasm decoded the bytes in the entry-point call; nothing is memoized after
EmBytesSync(cl, h) == Res(cl, h, Returned(cl.bytes, "bytes"), NoOp)
EmBytesAsync(cl, h) == Res(cl, h, Resolved(cl.bytes, "bytes"), NoOp)

\* an older loader that keeps its module as InWasm does: () => mod || (mod = ...)
EmModuleSync_Memo(cl, h, okM) == ModuleSync(cl, h, TRUE, okM)

\* () => new W.Module(bytes)
EmModuleSync(cl, h, okM) ==
  IF okM
  THEN Res([cl EXCEPT !.nModule = @ + 1], Append(h, ModuleObj(h, cl.bytes)),
           Returned(Len(h) + 1, "newModule"), NoOp)
  ELSE Res([cl EXCEPT !.nModule = @ + 1], h, Threw("newModule", HostError("newModule")), NoOp)

\* () => W.compile(bytes)
EmModuleAsync(cl, h) ==
  Res([cl EXCEPT !.nCompile = @ + 1], h, Pending("compile"),
      HostOp("compile", cl.bytes, NoImports))

\* () => new W.Instance(new W.Module(bytes), _env(e))
EmInstanceSync(cl, h, okM, okI) ==
  IF ~okM THEN Res([cl EXCEPT !.nModule = @ + 1], h, Threw("newModule", HostError("newModule")), NoOp)
  ELSE LET h1 == Append(h, ModuleObj(h, cl.bytes))
           c1 == [cl EXCEPT !.nModule = @ + 1, !.nInstance = @ + 1] IN
       IF okI
       THEN Res(c1, Append(h1, InstanceObj(Len(h1), Env(cl.e))),
                Returned(Len(h1) + 1, "newInstance"), NoOp)
       ELSE Res(c1, h1, Threw("newInstance", HostError("newInstance")), NoOp)

\* () => W.instantiate(bytes, _env(e)).then(r => r.instance)
EmInstanceAsync(cl, h) ==
  Res([cl EXCEPT !.nInstBytes = @ + 1], h, Pending("instBytes"),
      HostOp("instBytes", cl.bytes, Env(cl.e)))

\* the accessor EmWasm returned for {t, s, d, e}
EmWasmAccessor(cl, h, okM, okI) ==
  IF TagIs(cl.t, OT_BYTES)
  THEN IF TruthyB(cl.s) THEN EmBytesSync(cl, h) ELSE EmBytesAsync(cl, h)
  ELSE IF TagIs(cl.t, OT_MODULE)
  THEN IF TruthyB(cl.s) THEN EmModuleSync(cl, h, okM) ELSE EmModuleAsync(cl, h)
  ELSE IF TruthyB(cl.s) THEN EmInstanceSync(cl, h, okM, okI)
  ELSE EmInstanceAsync(cl, h)

\* ------------------------------------------------------------ entry points
\* what an entry-point call does: its outcome, the definitions it handed to
\* add and the closure it created (if any)
Entry(outcome, adds, cls) == [outcome |-> outcome, adds |-> adds, cls |-> cls]

\* _wasmCtx.add(def): registers def and raises; the context is the compile
\* script's, so whether control comes back (raises = FALSE) is left open
CtxAdd(def, raises) ==
  Entry(IF raises THEN "signal" ELSE "undefined", << def >>, << >>)

\* shape detection on the tag `t` instead of on `d`
IsCompiled_ByTag(def) == def.t.ty = "number" /\ def.t.n = OT_BYTES

\* if ((def as any).d)
IsCompiled(def) == TruthyD(def.d)

\* InWasm without the typeof test: an uncompiled run goes on to add
InWasm_NoThrow(def, hasCtx, raises) ==
  IF IsCompiled(def) THEN Entry("accessor", << >>, << NewClosure("InWasm", def) >>)
  ELSE CtxAdd(def, raises)

\* InWasm that returns quietly instead of registering the definition
InWasm_SilentNoop(def, hasCtx, raises) ==
  IF IsCompiled(def) THEN Entry("accessor", << >>, << NewClosure("InWasm", def) >>)
  ELSE IF ~hasCtx THEN Entry("mustRun", << >>, << >>)
  ELSE Entry("undefined", << >>, << >>)

\* InWasm that looks for the capture context before it looks at `d`
InWasm_CtxFirst(def, hasCtx, raises) ==
  IF hasCtx THEN CtxAdd(def, raises)
  ELSE IF IsCompiled(def) THEN Entry("accessor", << >>, << NewClosure("InWasm", def) >>)
  ELSE Entry("mustRun", << >>, << >>)

\* an entry point that decodes `d` before it builds the accessor
InWasm_EagerDecode(def, hasCtx, raises) ==
  IF IsCompiled(def)
  THEN LET b == EnsureBytes(NewClosure("InWasm", def), << >>, TRUE) IN
       Entry("accessor", << >>, << [b.cl EXCEPT !.heap = b.heap] >>)
  ELSE IF ~hasCtx THEN Entry("mustRun", << >>, << >>)
  ELSE CtxAdd(def, raises)

\* InWasm(def)
InWasm(def, hasCtx, raises) ==
  IF IsCompiled(def) THEN Entry("accessor", << >>, << NewClosure("InWasm", def) >>)
  ELSE IF ~hasCtx THEN Entry("mustRun", << >>, << >>)
  ELSE CtxAdd(def, raises)

\* EmWasm(def): const bytes = _dec(d) runs before the accessor is built
EmWasm(def, hasCtx, raises, buf) ==
  IF IsCompiled(def)
  THEN LET b == EnsureBytes(NewClosure("EmWasm", def), << >>, buf) IN
       IF b.ok THEN Entry("accessor", << >>, << [b.cl EXCEPT !.heap = b.heap] >>)
       ELSE Entry("decThrows", << >>, << >>)
  ELSE IF ~hasCtx THEN Entry("mustRun", << >>, << >>)
  ELSE CtxAdd(def, raises)

\* ----------------------------------------------------- host continuations
\* .then(m => mod = m)
ThenCompile(cl, m) == [cl EXCEPT !.mod = m]
\* a continuation that hands the instance on without keeping r.module
ThenInstantiate_NoStore(cl, m) == cl
\* .then(r => (mod = r.module) && r.instance)
ThenInstantiate(cl, m) == [cl EXCEPT !.mod = m]

\* the host completes operation p of closure cl successfully
Fulfil(p, cl, h) ==
  IF p.kind = "compile"
  THEN [cl |-> IF cl.loader = "InWasm" THEN ThenCompile(cl, Len(h) + 1) ELSE cl,
        heap |-> Append(h, ModuleObj(h, p.arg)),
        val |-> Len(h) + 1]
  ELSE IF p.kind = "instMod"
  THEN [cl |-> cl,
        heap |-> Append(h, InstanceObj(p.arg, p.imp)),
        val |-> Len(h) + 1]
  ELSE [cl |-> IF cl.loader = "InWasm" THEN ThenInstantiate(cl, Len(h) + 1) ELSE cl,
        heap |-> Append(Append(h, ModuleObj(h, p.arg)), InstanceObj(Len(h) + 1, p.imp)),
        val |-> Len(h) + 2]

\* ------------------------------------------------------------------ actions
RECURSIVE TotalInvs(_)
\* the number of accessor invocations made on the closures of cs
TotalInvs(cs) == IF cs = << >> THEN 0 ELSE Len(Head(cs).invs) + TotalInvs(Tail(cs))

\* the codec before anything was handed to it
NoCodec == [b |-> << >>, s |-> << >>, encoded |-> FALSE, outs |-> << >>]

Init ==
  /\ pkg \in Loaders
  /\ ctx \in BOOLEAN
  /\ captured = << >>
  /\ entries = << >>
  /\ closures = << >>
  /\ codec = NoCodec

\* a loader whose slots live outside the call: the accessor made for a literal
\* starts with what an earlier accessor for an equal literal has cached
ApplyEntry_SharedSlots(loader, def, r0) ==
  \E r \in {r0} :
  /\ entries' = Append(entries,
       [loader |-> loader, def |-> def, outcome |-> r.outcome,
        cl |-> IF r.cls = << >> THEN 0 ELSE Len(closures) + 1])
  /\ captured' = captured \o r.adds
  /\ closures' = closures \o
       [k \in 1..Len(r.cls) |->
          IF \E c \in 1..Len(closures) : closures[c].d = r.cls[k].d
          THEN LET c == CHOOSE c \in 1..Len(closures) : closures[c].d = r.cls[k].d IN
               [r.cls[k] EXCEPT !.bytes = closures[c].bytes, !.mod = closures[c].mod,
                                !.heap = closures[c].heap]
          ELSE r.cls[k]]
  /\ UNCHANGED << pkg, ctx, codec >>

ApplyEntry(loader, def, r0) ==
  \E r \in {r0} :
  /\ entries' = Append(entries,
       [loader |-> loader, def |-> def, outcome |-> r.outcome,
        cl |-> IF r.cls = << >> THEN 0 ELSE Len(closures) + 1])
  /\ captured' = captured \o r.adds
  /\ closures' = closures \o r.cls
  /\ UNCHANGED << pkg, ctx, codec >>

InWasmCall ==
  /\ pkg = "InWasm"
  /\ Len(entries) < MaxCalls
  /\ \E def \in Defs, raises \in (IF ctx THEN BOOLEAN ELSE {TRUE}) :
       ApplyEntry("InWasm", def, InWasm(def, ctx, raises))

EmWasmCall ==
  /\ pkg = "EmWasm"
  /\ Len(entries) < MaxCalls
  /\ \E def \in EmDefs, raises \in (IF ctx THEN BOOLEAN ELSE {TRUE}), buf \in BOOLEAN :
       ApplyEntry("EmWasm", def, EmWasm(def, ctx, raises, buf))

\* the inputs an invocation on cl can read: typeof Buffer when it has to
\* decode, the host's verdict on a synchronous compile when it has to compile,
\* the host's verdict on a synchronous instantiation
BufReads(cl) == IF cl.bytes = 0 THEN BOOLEAN ELSE {TRUE}
ModuleVerdicts(cl) ==
  IF TruthyB(cl.s) /\ ~TagIs(cl.t, OT_BYTES) /\ (cl.loader = "EmWasm" \/ cl.mod = 0)
  THEN BOOLEAN ELSE {TRUE}
InstanceVerdicts(cl) ==
  IF TruthyB(cl.s) /\ ~TagIs(cl.t, OT_BYTES) /\ ~TagIs(cl.t, OT_MODULE)
  THEN BOOLEAN ELSE {TRUE}

\* one invocation of the accessor of closure c
InvokeAny ==
  /\ \E c \in 1..Len(closures) :
     \E buf \in BufReads(closures[c]), okM \in ModuleVerdicts(closures[c]),
        okI \in InstanceVerdicts(closures[c]) :
       \E r \in {IF closures[c].loader = "InWasm"
                 THEN InWasmAccessor(closures[c], closures[c].heap, buf, okM, okI)
                 ELSE EmWasmAccessor(closures[c], closures[c].heap, okM, okI)} :
         closures' = [closures EXCEPT ![c] =
           [r.cl EXCEPT
              !.heap = r.heap,
              !.invs = Append(@, r.inv),
              !.pending = IF r.op.kind = "none" THEN @
                          ELSE @ \cup {[inv |-> Len(closures[c].invs) + 1,
                                        kind |-> r.op.kind,
                                        arg |-> r.op.arg, imp |-> r.op.imp]}]]
  /\ UNCHANGED << pkg, ctx, captured, entries, codec >>

Invoke ==
  /\ TotalInvs(closures) < MaxInvs
  /\ InvokeAny

\* the host engine completes an operation in flight
HostResolve ==
  /\ \E c \in 1..Len(closures) : \E p \in closures[c].pending :
       \E r \in {Fulfil(p, closures[c], closures[c].heap)} :
       closures' = [closures EXCEPT ![c] =
         [r.cl EXCEPT
            !.heap = r.heap,
            !.invs[p.inv].status = "resolved",
            !.invs[p.inv].val = r.val,
            !.pending = @ \ {p}]]
  /\ UNCHANGED << pkg, ctx, captured, entries, codec >>

\* a rejection handler that resets the module slot: .catch(() => mod = undefined)
HostReject_ClearsSlot ==
  /\ \E c \in 1..Len(closures) : \E p \in closures[c].pending :
       closures' = [closures EXCEPT
         ![c].invs[p.inv].status = "rejected",
         ![c].invs[p.inv].err = HostError(p.kind),
         ![c].mod = 0,
         ![c].pending = @ \ {p}]
  /\ UNCHANGED << pkg, ctx, captured, entries, codec >>

\* the host engine fails an operation in flight: the future is rejected
HostReject ==
  /\ \E c \in 1..Len(closures) : \E p \in closures[c].pending :
       closures' = [closures EXCEPT
         ![c].invs[p.inv].status = "rejected",
         ![c].invs[p.inv].err = HostError(p.kind),
         ![c].pending = @ \ {p}]
  /\ UNCHANGED << pkg, ctx, captured, entries, codec >>

Next == InWasmCall \/ EmWasmCall \/ Invoke \/ HostResolve \/ HostReject

Spec == Init /\ [][Next]_vars

\* the host engine completes every operation handed to it, one way or the other
FairSpec == Spec /\ WF_vars(HostResolve \/ HostReject)

\* ---------------------------------------------------- the dispatch alone
\* the accessor InWasm builds as a function of the tag and the mode flag: the
\* literals carry every tag (missing, the three of OutputType, out of range)
\* with every mode flag (missing, true, false)
DispatchTags == {UndefN, Num(OT_INSTANCE), Num(OT_MODULE), Num(OT_BYTES), Num(3), Num(-1)}
DispatchModes == {UndefB, Bool(TRUE), Bool(FALSE)}
DispatchDefs ==
  {[name |-> "", t |-> t, s |-> s, d |-> StrD(D_wasm), e |-> Undef] :
     t \in DispatchTags, s \in DispatchModes}

InitDispatch ==
  /\ pkg = "InWasm"
  /\ ctx \in BOOLEAN
  /\ captured = << >>
  /\ entries = << >>
  /\ closures = << >>
  /\ codec = NoCodec

DispatchCall ==
  /\ Len(entries) < MaxDispatchCalls
  /\ \E def \in DispatchDefs, raises \in (IF ctx THEN BOOLEAN ELSE {TRUE}) :
       ApplyEntry("InWasm", def, InWasm(def, ctx, raises))

NextDispatch == DispatchCall \/ Invoke \/ HostResolve \/ HostReject

DispatchSpec == InitDispatch /\ [][NextDispatch]_vars

\* ------------------------------------------------- one accessor, followed
\* the compiled literals of Spec handed to InWasm, and their accessors invoked
\* more often: an invocation can follow the completion and the failure of
\* two host operations that were in flight together
InitRace ==
  /\ pkg = "InWasm"
  /\ ctx \in BOOLEAN
  /\ captured = << >>
  /\ entries = << >>
  /\ closures = << >>
  /\ codec = NoCodec

RaceCall ==
  /\ Len(entries) < MaxRaceCalls
  /\ \E def \in CompiledDefs, raises \in (IF ctx THEN BOOLEAN ELSE {TRUE}) :
       ApplyEntry("InWasm", def, InWasm(def, ctx, raises))

RaceInvoke ==
  /\ TotalInvs(closures) < MaxRaceInvs
  /\ InvokeAny

NextRace == RaceCall \/ RaceInvoke \/ HostResolve \/ HostReject

RaceSpec == InitRace /\ [][NextRace]_vars

\* ------------------------------------------------------- the codec alone
\* _dec as a function of its input: bytes b are encoded to the text the
\* compile step writes, and the text is decoded, on either path, more than once
InitRT ==
  /\ pkg = "InWasm"
  /\ ctx = FALSE
  /\ captured = << >>
  /\ entries = << >>
  /\ closures = << >>
  /\ codec \in {[NoCodec EXCEPT !.b = b] : b \in ByteInputs}

EncodeStep ==
  /\ ~codec.encoded
  /\ codec' = [codec EXCEPT !.s = Base64Encode(codec.b), !.encoded = TRUE]
  /\ UNCHANGED << pkg, ctx, captured, entries, closures >>

\* one call _dec(s); buf = (typeof Buffer !== 'undefined')
DecStep ==
  /\ codec.encoded
  /\ Len(codec.outs) < MaxDecodes
  /\ \E buf \in BOOLEAN :
       \E r \in {Dec(codec.s, buf)} :
         codec' = [codec EXCEPT !.outs = Append(@, [buf |-> buf, ok |-> r.ok, bytes |-> r.bytes])]
  /\ UNCHANGED << pkg, ctx, captured, entries, closures >>

NextRT == EncodeStep \/ DecStep

RoundTripSpec == InitRT /\ [][NextRT]_vars

TypeOK ==
  /\ Len(entries) <= MaxCalls
  /\ TotalInvs(closures) <= MaxInvs
  /\ \A c \in 1..Len(closures) :
       /\ closures[c].bytes \in 0..Len(closures[c].heap)
       /\ closures[c].mod \in 0..Len(closures[c].heap)
       /\ \A p \in closures[c].pending : closures[c].invs[p.inv].status = "pending"

\* --------------------------------------------------------- step predicates
\* the step is an entry-point call; NewEntry is its record
IsEntryStep == Len(entries') = Len(entries) + 1
NewEntry == entries'[Len(entries')]

\* the step is an invocation of the accessor of closure c; NewInv is its record
IsInvokeOn(c) ==
  /\ c \in 1..Len(closures)
  /\ Len(closures') = Len(closures)
  /\ Len(closures'[c].invs) = Len(closures[c].invs) + 1
NewInv(c) == closures'[c].invs[Len(closures'[c].invs)]
\* the host operations the step started on closure c
Started(c) == closures'[c].pending \ closures[c].pending

\* the step resolves the host operation p of closure c
IsResolveOf(c, p) ==
  /\ c \in 1..Len(closures)
  /\ Len(closures') = Len(closures)
  /\ p \in closures[c].pending
  /\ p \notin closures'[c].pending
  /\ closures'[c].invs[p.inv].status = "resolved"

HasD(def) == def.d.ty = "string"
NonEmptyD(def) == def.d.ty = "string" /\ Len(def.d.cs) > 0
IsKind(cl, t, sync) ==
  /\ (t = OT_INSTANCE => ~TagIs(cl.t, OT_BYTES) /\ ~TagIs(cl.t, OT_MODULE))
  /\ (t # OT_INSTANCE => TagIs(cl.t, t))
  /\ TruthyB(cl.s) = sync
\* the kind of the object v of closure cl ("none" for no object)
KindOf(cl, v) == IF v \in 1..Len(cl.heap) THEN cl.heap[v].kind ELSE "none"
ExpectedKind(cl) ==
  IF TagIs(cl.t, OT_BYTES) THEN "bytes"
  ELSE IF TagIs(cl.t, OT_MODULE) THEN "module" ELSE "instance"
ModulesOf(cl) == {v \in 1..Len(cl.heap) : cl.heap[v].kind = "module"}

\* ------------------------------------------------------------------ claims
\* C1: an entry-point call (InWasm or EmWasm) with a definition that has no
\* `d`, made while no capture context is defined, raises the 'must run' error
\* and nothing else happens: no closure (so no slot) is created, no decode
\* runs, no host operation starts, nothing is handed to add.
C1_MustRunDoesNothing ==
  [][ (IsEntryStep /\ ~HasD(NewEntry.def) /\ ~ctx)
      => /\ NewEntry.outcome = "mustRun"
         /\ NewEntry.cl = 0
         /\ closures' = closures
         /\ captured' = captured ]_vars

C1_Witness ==
  /\ ~ctx
  /\ \E i \in 1..Len(entries) :
       /\ entries[i].def = Authoring("adder")
       /\ entries[i].outcome = "mustRun"
  /\ \E c \in 1..Len(closures) : closures[c].nDec = 0 /\ closures[c].invs = << >>

\* C2: InWasm called with a definition that has no `d` while the capture
\* context exists calls add exactly once, with that definition, returns no
\* accessor, and decodes nothing and starts no host operation.
C2_CaptureOnce ==
  [][ (IsEntryStep /\ NewEntry.loader = "InWasm" /\ ~HasD(NewEntry.def) /\ ctx)
      => /\ captured' = Append(captured, NewEntry.def)
         /\ NewEntry.outcome \in {"signal", "undefined"}
         /\ NewEntry.cl = 0
         /\ closures' = closures ]_vars

C2_Witness ==
  /\ ctx /\ pkg = "InWasm"
  /\ captured = << Authoring("adder") >>
  /\ \E i \in 1..Len(entries) :
       entries[i].def = Authoring("adder") /\ entries[i].outcome = "signal"

\* C3 as stated: every definition in which `d` is present, the empty string
\* included, gets an accessor from InWasm and is neither refused nor captured.
C3_PresentDIsCompiled ==
  [][ (IsEntryStep /\ NewEntry.loader = "InWasm" /\ HasD(NewEntry.def))
      => /\ NewEntry.outcome = "accessor"
         /\ captured' = captured ]_vars

\* C3 amended: every definition whose `d` is a non-empty string gets an accessor
\* from InWasm, a new closure over its t, s, d, e with both slots unset, and is
\* neither refused nor captured, with or without a capture context.
C3_NonEmptyDIsCompiled ==
  [][ (IsEntryStep /\ NewEntry.loader = "InWasm" /\ NonEmptyD(NewEntry.def))
      => /\ NewEntry.outcome = "accessor"
         /\ captured' = captured
         /\ closures' = Append(closures, NewClosure("InWasm", NewEntry.def))
         /\ NewEntry.cl = Len(closures') ]_vars

C3_Witness ==
  /\ ctx
  /\ \E i \in 1..Len(entries) :
       /\ entries[i].loader = "InWasm"
       /\ entries[i].def = Compiled(OT_MODULE, TRUE, D_wasm, Undef)
       /\ entries[i].outcome = "accessor"
       /\ entries[i].cl \in 1..Len(closures)
       /\ closures[entries[i].cl].d = entries[i].def.d

\* C4: a compiled definition (one whose `d` holds an encoded binary) is never
\* handed to add, by the entry-point call or by anything the accessor does
\* later: everything add ever received lacks a non-empty `d`.
C4_CompiledNeverCaptured ==
  \A i \in 1..Len(captured) : ~NonEmptyD(captured[i])

C4_Witness ==
  /\ ctx /\ pkg = "InWasm"
  /\ Len(captured) = 1
  /\ \E c \in 1..Len(closures) :
       /\ Len(closures[c].invs) >= 2
       /\ closures[c].pending = {}

\* C5: the accessor hands back the requested kind in the requested mode on
\* every invocation: with s true never a future, and a value that is returned
\* is of the requested kind; with s false always a future, resolving to the
\* requested kind, and already resolved when it wraps the bytes or the cached
\* module.
C5_KindAndMode ==
  \A c \in 1..Len(closures) : \A i \in 1..Len(closures[c].invs) :
    LET cl == closures[c]
        v == cl.invs[i] IN
    IF TruthyB(cl.s)
    THEN /\ ~v.future
         /\ v.status \in {"returned", "threw"}
         /\ (v.status = "returned" => KindOf(cl, v.val) = ExpectedKind(cl))
    ELSE /\ v.future
         /\ v.status \in {"pending", "resolved", "rejected"}
         /\ (v.status = "resolved" => KindOf(cl, v.val) = ExpectedKind(cl))
         /\ (TagIs(cl.t, OT_BYTES) \/ v.path = "cached" => v.status = "resolved")

C5_Witness ==
  \E c1, c2 \in 1..Len(closures) :
    /\ closures[c1].loader = "InWasm"
    /\ IsKind(closures[c1], OT_INSTANCE, TRUE)
    /\ Len(closures[c1].invs) = 1
    /\ closures[c1].invs[1].status = "returned"
    /\ KindOf(closures[c1], closures[c1].invs[1].val) = "instance"
    /\ IsKind(closures[c2], OT_BYTES, FALSE)
    /\ Len(closures[c2].invs) = 1
    /\ closures[c2].invs[1].future
    /\ closures[c2].invs[1].status = "resolved"
    /\ KindOf(closures[c2], closures[c2].invs[1].val) = "bytes"

\* C6: for output type BYTES, in either mode, every invocation of one accessor
\* yields the same byte-sequence object, the one in the bytes slot, and the
\* decode of `d` has run at most once.
C6_BytesOnce ==
  \A c \in 1..Len(closures) :
    LET cl == closures[c] IN
    TagIs(cl.t, OT_BYTES) =>
      /\ cl.nDec <= 1
      /\ \A i \in 1..Len(cl.invs) :
           /\ cl.invs[i].status \in {"returned", "resolved"}
           /\ cl.invs[i].val = cl.bytes
           /\ KindOf(cl, cl.bytes) = "bytes"

C6_Witness ==
  \E c \in 1..Len(closures) :
    /\ closures[c].loader = "InWasm"
    /\ IsKind(closures[c], OT_BYTES, FALSE)
    /\ Len(closures[c].invs) = 2
    /\ closures[c].invs[1].val = closures[c].invs[2].val
    /\ closures[c].nDec = 1
    /\ closures[c].heap[closures[c].bytes].data = << 0, 97, 115, 109 >>

\* C7: for MODULE in SYNC mode, once an invocation has returned a module, a
\* later invocation decodes nothing, compiles nothing and returns that module.
C7_ModuleSyncMemo ==
  [][ \A c \in 1..Len(closures) :
        (/\ IsInvokeOn(c)
         /\ closures[c].loader = "InWasm"
         /\ IsKind(closures[c], OT_MODULE, TRUE)
         /\ \E i \in 1..Len(closures[c].invs) : closures[c].invs[i].status = "returned")
        => /\ closures'[c].nDec = closures[c].nDec
           /\ closures'[c].nModule = closures[c].nModule
           /\ closures'[c].heap = closures[c].heap
           /\ NewInv(c).status = "returned"
           /\ \A i \in 1..Len(closures[c].invs) :
                closures[c].invs[i].status = "returned"
                  => NewInv(c).val = closures[c].invs[i].val ]_vars

C7_Witness ==
  \E c \in 1..Len(closures) :
    /\ closures[c].loader = "InWasm"
    /\ IsKind(closures[c], OT_MODULE, TRUE)
    /\ Len(closures[c].invs) = 2
    /\ closures[c].invs[1].status = "returned"
    /\ closures[c].invs[2].status = "returned"
    /\ closures[c].invs[2].path = "cached"
    /\ closures[c].invs[2].val = closures[c].invs[1].val
    /\ closures[c].nModule = 1
    /\ closures[c].nDec = 1

\* C8: for MODULE in ASYNC mode, an invocation issued while the module slot is
\* set returns a future already resolved with the module in the slot and
\* starts no host operation.
C8_ModuleAsyncCached ==
  [][ \A c \in 1..Len(closures) :
        (/\ IsInvokeOn(c)
         /\ closures[c].loader = "InWasm"
         /\ IsKind(closures[c], OT_MODULE, FALSE)
         /\ closures[c].mod # 0)
        => /\ NewInv(c).future
           /\ NewInv(c).status = "resolved"
           /\ NewInv(c).val = closures[c].mod
           /\ KindOf(closures[c], closures[c].mod) = "module"
           /\ closures'[c].nCompile = closures[c].nCompile
           /\ Started(c) = {}
           /\ closures'[c].heap = closures[c].heap ]_vars

C8_Witness ==
  \E c \in 1..Len(closures) :
    /\ closures[c].loader = "InWasm"
    /\ IsKind(closures[c], OT_MODULE, FALSE)
    /\ Len(closures[c].invs) = 2
    /\ closures[c].invs[1].path = "compile"
    /\ closures[c].invs[1].status = "resolved"
    /\ closures[c].invs[2].path = "cached"
    /\ closures[c].invs[2].val = closures[c].invs[1].val
    /\ closures[c].nCompile = 1

\* C9: for INSTANCE in SYNC mode, the invocations that return hand back
\* pairwise distinct instances, each built from the module in the slot, no
\* module other than that one was ever compiled, and when every invocation
\* returned the host compile ran at most once.
C9_InstanceSyncFresh ==
  \A c \in 1..Len(closures) :
    LET cl == closures[c] IN
    (cl.loader = "InWasm" /\ IsKind(cl, OT_INSTANCE, TRUE)) =>
      /\ \A i, j \in 1..Len(cl.invs) :
           (i # j /\ cl.invs[i].status = "returned" /\ cl.invs[j].status = "returned")
             => cl.invs[i].val # cl.invs[j].val
      /\ \A i \in 1..Len(cl.invs) :
           cl.invs[i].status = "returned"
             => /\ KindOf(cl, cl.invs[i].val) = "instance"
                /\ cl.mod # 0
                /\ cl.heap[cl.invs[i].val].src = cl.mod
      /\ ModulesOf(cl) \subseteq {cl.mod}
      /\ (\A i \in 1..Len(cl.invs) : cl.invs[i].status = "returned") => cl.nModule <= 1

C9_Witness ==
  \E c \in 1..Len(closures) :
    /\ closures[c].loader = "InWasm"
    /\ IsKind(closures[c], OT_INSTANCE, TRUE)
    /\ Len(closures[c].invs) = 2
    /\ \A i \in 1..2 : closures[c].invs[i].status = "returned"
    /\ closures[c].invs[1].val # closures[c].invs[2].val
    /\ closures[c].nInstance = 2
    /\ closures[c].nModule = 1

\* C10: for INSTANCE in ASYNC mode, an invocation issued while the module slot
\* is set instantiates from the module in the slot; one issued while it is
\* unset instantiates from the bytes, and when that resolves the module it
\* produced is put in the slot; an invocation issued after one has resolved
\* never instantiates from the bytes; every resolved future holds an instance.
C10_InstanceAsync ==
  [][ \A c \in 1..Len(closures) :
        (closures[c].loader = "InWasm" /\ IsKind(closures[c], OT_INSTANCE, FALSE)) =>
          /\ (IsInvokeOn(c) /\ closures[c].mod # 0)
               => /\ NewInv(c).status = "pending"
                  /\ Started(c) = {[inv |-> Len(closures'[c].invs), kind |-> "instMod",
                                    arg |-> closures[c].mod, imp |-> Env(closures[c].e)]}
          /\ (IsInvokeOn(c) /\ closures[c].mod = 0)
               => /\ NewInv(c).status = "pending"
                  /\ closures'[c].bytes # 0
                  /\ Started(c) = {[inv |-> Len(closures'[c].invs), kind |-> "instBytes",
                                    arg |-> closures'[c].bytes, imp |-> Env(closures[c].e)]}
          /\ (IsInvokeOn(c)
              /\ \E i \in 1..Len(closures[c].invs) : closures[c].invs[i].status = "resolved")
               => NewInv(c).path # "instBytes"
          /\ \A p \in closures[c].pending :
               IsResolveOf(c, p) =>
                 LET v == closures'[c].invs[p.inv].val IN
                 /\ KindOf(closures'[c], v) = "instance"
                 /\ v \notin 1..Len(closures[c].heap)
                 /\ (p.kind = "instBytes" =>
                       /\ closures'[c].mod = closures'[c].heap[v].src
                       /\ closures'[c].mod \notin 1..Len(closures[c].heap)
                       /\ KindOf(closures'[c], closures'[c].mod) = "module"
                       /\ closures'[c].heap[closures'[c].mod].src = p.arg)
                 /\ (p.kind = "instMod" =>
                       /\ closures'[c].mod = closures[c].mod
                       /\ closures'[c].heap[v].src = p.arg) ]_vars

C10_Witness ==
  \E c \in 1..Len(closures) :
    /\ closures[c].loader = "InWasm"
    /\ IsKind(closures[c], OT_INSTANCE, FALSE)
    /\ Len(closures[c].invs) = 2
    /\ closures[c].invs[1].path = "instBytes"
    /\ closures[c].invs[1].status = "resolved"
    /\ closures[c].invs[2].path = "instMod"
    /\ closures[c].invs[2].status = "resolved"
    /\ closures[c].heap[closures[c].invs[2].val].src = closures[c].mod

\* the import arguments closure cl handed to the host's instantiate: those of
\* the operations in flight and those of the instances the host produced
ImportsPassed(cl) ==
  {p.imp : p \in {q \in cl.pending : q.kind \in {"instBytes", "instMod"}}}
  \cup {cl.heap[v].imp : v \in {w \in 1..Len(cl.heap) : cl.heap[w].kind = "instance"}}
IsSet(x) == x.ty # "undefined"

\* C11 as stated: for an INSTANCE accessor of InWasm, in both modes and on
\* both paths, the import argument handed to the host's instantiate is absent
\* exactly when `e` is unset, and otherwise is a mapping whose one key is "env".
C11_AbsentIffUnset ==
  \A c \in 1..Len(closures) :
    (closures[c].loader = "InWasm"
     /\ ~TagIs(closures[c].t, OT_BYTES) /\ ~TagIs(closures[c].t, OT_MODULE)) =>
      \A imp \in ImportsPassed(closures[c]) :
        /\ ~imp.present <=> ~IsSet(closures[c].e)
        /\ imp.present => imp.key = "env"

\* C11 amended: for an INSTANCE accessor of InWasm, in both modes and on both
\* paths, the import argument handed to the host's instantiate is absent
\* exactly when `e` is falsy (unset, or set to the empty string), and
\* otherwise is a mapping whose one key is "env".
C11_AbsentIffFalsy ==
  \A c \in 1..Len(closures) :
    (closures[c].loader = "InWasm"
     /\ ~TagIs(closures[c].t, OT_BYTES) /\ ~TagIs(closures[c].t, OT_MODULE)) =>
      \A imp \in ImportsPassed(closures[c]) :
        /\ ~imp.present <=> (~IsSet(closures[c].e) \/ closures[c].e.v = "")
        /\ imp.present => imp.key = "env"

\* an ASYNC INSTANCE closure whose `e` is the empty string instantiated from
\* the bytes and then from the cached module, both times without imports
C11_Witness ==
  \E c \in 1..Len(closures) :
    /\ closures[c].loader = "InWasm"
    /\ IsKind(closures[c], OT_INSTANCE, FALSE)
    /\ closures[c].e = Str("")
    /\ Len(closures[c].invs) = 2
    /\ closures[c].invs[1].path = "instBytes"
    /\ closures[c].invs[1].status = "resolved"
    /\ closures[c].invs[2].path = "instMod"
    /\ closures[c].invs[2].status = "resolved"
    /\ ~closures[c].heap[closures[c].invs[2].val].imp.present

\* C12: when `e` is set, the one top-level key of the import object handed to
\* the host is the string held in `e`, whatever that string is, not only "env".
\* The code builds { env: e }: the key is the fixed name "env" and what `e`
\* holds becomes the value, so the statement fails for every `e` but "env".
C12_KeyIsE ==
  \A c \in 1..Len(closures) :
    closures[c].loader = "InWasm" =>
      \A imp \in ImportsPassed(closures[c]) :
        imp.present => imp.key = closures[c].e.v

\* the module behind the value v an ASYNC accessor of cl resolved to
ModuleBehind(cl, v) == IF cl.heap[v].kind = "instance" THEN cl.heap[v].src ELSE v

\* C13: InWasm does not deduplicate ASYNC work in flight. An invocation of a
\* MODULE ASYNC (INSTANCE ASYNC) accessor made while the Module slot is unset
\* starts its own host compile (instantiate-from-bytes) on the decoded bytes,
\* also when such an operation of the same closure is already in flight, and
\* leaves that one in flight; each operation, when it completes, writes the
\* module it produced into the Module slot; every future resolves to a module
\* (an instance of a module) compiled from the one decoded bytes object.
C13_NoDedup ==
  [][ \A c \in 1..Len(closures) :
        (closures[c].loader = "InWasm" /\ ~TagIs(closures[c].t, OT_BYTES)
         /\ ~TruthyB(closures[c].s)) =>
          /\ (IsInvokeOn(c) /\ closures[c].mod = 0) =>
               /\ Cardinality(Started(c)) = 1
               /\ closures[c].pending \subseteq closures'[c].pending
               /\ \A p \in Started(c) :
                    /\ p.inv = Len(closures'[c].invs)
                    /\ p.kind = (IF TagIs(closures[c].t, OT_MODULE)
                                 THEN "compile" ELSE "instBytes")
                    /\ p.arg = closures'[c].bytes
                    /\ \A q \in closures[c].pending : q.arg = p.arg
          /\ \A p \in closures[c].pending :
               (IsResolveOf(c, p) /\ p.kind \in {"compile", "instBytes"}) =>
                 LET v == closures'[c].invs[p.inv].val IN
                 /\ closures'[c].mod = ModuleBehind(closures'[c], v)
                 /\ closures'[c].mod \notin 1..Len(closures[c].heap)
                 /\ KindOf(closures'[c], v) = ExpectedKind(closures[c])
                 /\ closures'[c].heap[closures'[c].mod].src = closures[c].bytes
                 /\ closures'[c].pending = closures[c].pending \ {p} ]_vars

\* two invocations of one INSTANCE ASYNC accessor were in flight together and
\* both resolved: two instances of two modules compiled from the same bytes
C13_Witness ==
  \E c \in 1..Len(closures) :
    /\ closures[c].loader = "InWasm"
    /\ IsKind(closures[c], OT_INSTANCE, FALSE)
    /\ Len(closures[c].invs) = 2
    /\ closures[c].nInstBytes = 2
    /\ closures[c].nDec = 1
    /\ \A i \in 1..2 : closures[c].invs[i].status = "resolved"
    /\ closures[c].invs[1].val # closures[c].invs[2].val
    /\ closures[c].heap[closures[c].invs[1].val].src
         # closures[c].heap[closures[c].invs[2].val].src
    /\ \A i \in 1..2 :
         closures[c].heap[closures[c].heap[closures[c].invs[i].val].src].src
           = closures[c].bytes

\* C14 as stated: the first successful write of a cache slot wins: once the
\* Bytes slot or the Module slot of an InWasm closure holds a value, no step
\* replaces it by a different object, under every interleaving.
C14_FirstWriteWins ==
  [][ \A c \in 1..Len(closures) :
        closures[c].loader = "InWasm" =>
          /\ closures[c].bytes # 0 => closures'[c].bytes = closures[c].bytes
          /\ closures[c].mod # 0 => closures'[c].mod = closures[c].mod ]_vars

\* C14 amended: the Bytes slot of an InWasm closure, once set, is never
\* replaced. The Module slot, once set, is never unset, never replaced in SYNC
\* mode and never written by an operation started after it was set (such an
\* invocation starts at most an instantiate-from-module, whose completion
\* leaves the slot alone); in ASYNC mode it is replaced exactly when a host
\* compile or instantiate-from-bytes that was started while the slot was
\* unset completes after another one did: the last completion wins.
C14_LastAsyncCompletionWins ==
  [][ \A c \in 1..Len(closures) :
        closures[c].loader = "InWasm" =>
          /\ closures[c].bytes # 0 => closures'[c].bytes = closures[c].bytes
          /\ closures[c].mod # 0 =>
               /\ closures'[c].mod # 0
               /\ closures'[c].mod # closures[c].mod =>
                    /\ ~TruthyB(closures[c].s)
                    /\ closures'[c].mod \notin 1..Len(closures[c].heap)
                    /\ \E p \in closures[c].pending :
                         /\ IsResolveOf(c, p)
                         /\ p.kind \in {"compile", "instBytes"}
               /\ IsInvokeOn(c) =>
                    \A p \in Started(c) : p.kind = "instMod"
               /\ \A p \in closures[c].pending :
                    (IsResolveOf(c, p) /\ p.kind \in {"compile", "instBytes"}) =>
                      closures'[c].mod # closures[c].mod ]_vars

\* a MODULE ASYNC closure whose two concurrent compiles both completed: the
\* slot holds the module of one, the other future resolved to a different one
C14_Witness ==
  \E c \in 1..Len(closures) :
    /\ closures[c].loader = "InWasm"
    /\ IsKind(closures[c], OT_MODULE, FALSE)
    /\ \E i, j \in 1..Len(closures[c].invs) :
         /\ closures[c].invs[i].status = "resolved"
         /\ closures[c].invs[j].status = "resolved"
         /\ closures[c].invs[i].path = "compile"
         /\ closures[c].invs[j].path = "compile"
         /\ closures[c].invs[i].val # closures[c].mod
         /\ closures[c].invs[j].val = closures[c].mod

\* the step rejects the future of the host operation p of closure c
IsRejectOf(c, p) ==
  /\ c \in 1..Len(closures)
  /\ Len(closures') = Len(closures)
  /\ p \in closures[c].pending
  /\ p \notin closures'[c].pending
  /\ closures'[c].invs[p.inv].status = "rejected"
\* the host calls closure cl has made: compiles, instantiations
NCompiles(cl) == cl.nModule + cl.nCompile + cl.nInstBytes
NInstantiations(cl) == cl.nInstance + cl.nInstMod + cl.nInstBytes

\* the step is a failure of an invocation of closure c: its accessor threw,
\* or the future of one of its invocations is rejected
IsFailureOn(c) ==
  \/ IsInvokeOn(c) /\ NewInv(c).status = "threw"
  \/ \E p \in closures[c].pending : IsRejectOf(c, p)

\* what C15 and its amendment share: a failure of the host's compile or
\* instantiate reaches the caller of that invocation as the very error object
\* the host raised for the failing operation (thrown in SYNC mode, a rejected
\* future in ASYNC mode, never a value); nothing of the failure is kept: an
\* invocation that finds the Module slot unset makes a fresh host call, one
\* that finds it set instantiates anew; the loader never retries: a failing
\* invocation made one call of the operation that failed, and a rejection
\* starts nothing.
C15_Delivery(c) ==
  /\ (IsInvokeOn(c) /\ NewInv(c).status = "threw") =>
       /\ NewInv(c).val = 0
       /\ NewInv(c).err = HostError(NewInv(c).path)
       /\ Started(c) = {}
       /\ TruthyB(closures[c].s)
       /\ NewInv(c).path \in {"newModule", "newInstance"}
       /\ NewInv(c).path = "newModule" =>
            /\ closures'[c].nModule = closures[c].nModule + 1
            /\ closures'[c].nInstance = closures[c].nInstance
       /\ NewInv(c).path = "newInstance" =>
            /\ closures'[c].nInstance = closures[c].nInstance + 1
            /\ closures'[c].nModule <= closures[c].nModule + 1
  /\ \A p \in closures[c].pending :
       IsRejectOf(c, p) =>
         /\ closures'[c].invs[p.inv].val = 0
         /\ closures'[c].invs[p.inv].err = HostError(p.kind)
         /\ closures'[c].invs[p.inv].path = p.kind
         /\ closures'[c].heap = closures[c].heap
         /\ closures'[c].pending = closures[c].pending \ {p}
         /\ NCompiles(closures'[c]) = NCompiles(closures[c])
         /\ NInstantiations(closures'[c]) = NInstantiations(closures[c])
  /\ \A i \in 1..Len(closures'[c].invs) :
       closures'[c].invs[i].status \in {"threw", "rejected"}
         <=> closures'[c].invs[i].err # NoError
  /\ (IsInvokeOn(c) /\ closures[c].mod = 0) =>
       /\ NCompiles(closures'[c]) = NCompiles(closures[c]) + 1
       /\ ~TruthyB(closures[c].s) =>
            Cardinality(Started(c)) = 1 /\ NewInv(c).status = "pending"
  /\ (IsInvokeOn(c) /\ closures[c].mod # 0
      /\ ~TagIs(closures[c].t, OT_MODULE)) =>
       NInstantiations(closures'[c]) = NInstantiations(closures[c]) + 1

\* C15 as stated: a failure of the host's compile or instantiate is delivered
\* unchanged to the caller of that invocation of the InWasm accessor, leaves
\* the Module slot unset if it was unset when the invocation began, and a
\* subsequent invocation starts a fresh host operation; the loader never
\* retries.
C15_FailureLeavesSlotUnset ==
  [][ \A c \in 1..Len(closures) :
        (closures[c].loader = "InWasm" /\ ~TagIs(closures[c].t, OT_BYTES)) =>
          /\ C15_Delivery(c)
          /\ (IsFailureOn(c) /\ closures[c].mod = 0) => closures'[c].mod = 0 ]_vars

\* C15 amended: a failure of the host's compile or instantiate is delivered
\* unchanged to the caller of that invocation of the InWasm accessor, a
\* subsequent invocation starts a fresh host operation, and the loader never
\* retries. The failure leaves the Module slot as the failing operation found
\* it: a failed compile or instantiate-from-bytes leaves it unset, a failed
\* instantiation of a cached module leaves that module in it. The one case in
\* which a failing invocation ends with a slot that was unset when it began is
\* SYNC INSTANCE, when the compile succeeds and only the instantiation fails:
\* the module just compiled stays cached and the next invocation
\* instantiates it without compiling.
C15_FailurePropagates ==
  [][ \A c \in 1..Len(closures) :
        (closures[c].loader = "InWasm" /\ ~TagIs(closures[c].t, OT_BYTES)) =>
          /\ C15_Delivery(c)
          /\ \A p \in closures[c].pending :
               IsRejectOf(c, p) =>
                 /\ closures'[c].mod = closures[c].mod
                 /\ closures'[c].bytes = closures[c].bytes
          /\ (IsInvokeOn(c) /\ NewInv(c).status = "threw") =>
               /\ NewInv(c).path = "newModule" =>
                    closures[c].mod = 0 /\ closures'[c].mod = 0
               /\ NewInv(c).path = "newInstance" =>
                    /\ closures[c].mod # 0 => closures'[c].mod = closures[c].mod
                    /\ closures[c].mod = 0 =>
                         /\ closures'[c].mod = Len(closures'[c].heap)
                         /\ KindOf(closures'[c], closures'[c].mod) = "module"
                         /\ closures'[c].nModule = closures[c].nModule + 1
          /\ (IsFailureOn(c) /\ closures[c].mod = 0 /\ closures'[c].mod # 0) =>
               /\ IsKind(closures[c], OT_INSTANCE, TRUE)
               /\ NewInv(c).path = "newInstance" ]_vars

\* a SYNC INSTANCE accessor compiled its module and threw the host's
\* instantiation error; its next invocation instantiated the cached module
\* without compiling again
C15_Witness ==
  \E c \in 1..Len(closures) :
    /\ closures[c].loader = "InWasm"
    /\ IsKind(closures[c], OT_INSTANCE, TRUE)
    /\ Len(closures[c].invs) = 2
    /\ closures[c].invs[1].status = "threw"
    /\ closures[c].invs[1].path = "newInstance"
    /\ closures[c].invs[1].err = HostError("newInstance")
    /\ closures[c].invs[2].status = "returned"
    /\ closures[c].nModule = 1
    /\ closures[c].nInstance = 2
    /\ closures[c].heap[closures[c].invs[2].val].src = closures[c].mod

\* the futures of closure cl that have not settled
PendingInvs(cl) == {i \in 1..Len(cl.invs) : cl.invs[i].status = "pending"}
NoPendingFutures == \A c \in 1..Len(closures) : PendingInvs(closures[c]) = {}

\* C16: every invocation of an ASYNC accessor runs to completion. No step
\* cancels or abandons a pending invocation: a pending future has exactly one
\* host operation in flight behind it, and the only change a step makes to it
\* is to settle it (resolved or rejected), after which it stays as it is. If
\* the host completes every operation, every future settles: again and again
\* no future is pending.
C16_AsyncCompletes ==
  /\ [](\A c \in 1..Len(closures) : \A i \in PendingInvs(closures[c]) :
          Cardinality({p \in closures[c].pending : p.inv = i}) = 1)
  /\ [][ \A c \in 1..Len(closures) : \A i \in 1..Len(closures[c].invs) :
           /\ closures[c].invs[i].status = "pending" =>
                closures'[c].invs[i].status \in {"pending", "resolved", "rejected"}
           /\ closures[c].invs[i].status # "pending" =>
                closures'[c].invs[i] = closures[c].invs[i] ]_vars
  /\ []<>NoPendingFutures

\* two futures of one ASYNC accessor were in flight together and both have
\* settled, one resolved and one rejected
C16_Witness ==
  \E c \in 1..Len(closures) :
    /\ closures[c].loader = "InWasm"
    /\ ~TruthyB(closures[c].s)
    /\ Len(closures[c].invs) = 2
    /\ closures[c].nCompile + closures[c].nInstBytes = 2
    /\ closures[c].invs[1].status = "rejected"
    /\ closures[c].invs[2].status = "resolved"
    /\ closures[c].pending = {}

\* C17: the caches are isolated per accessor. Every InWasm call on a compiled
\* definition makes a closure of its own with both slots unset and nothing in
\* flight, also when an equal definition was passed before, and leaves the
\* closures that exist as they are; an invocation of one accessor, or the
\* completion or failure of one of its host operations, changes that closure
\* only: the slots of every other closure stay as they were.
C17_Isolated ==
  [][ /\ \A c \in 1..Len(closures) : \A c2 \in 1..Len(closures) :
           (c # c2 /\ closures'[c] # closures[c]) => closures'[c2] = closures[c2]
      /\ (IsEntryStep /\ NewEntry.loader = "InWasm" /\ NewEntry.outcome = "accessor") =>
           /\ Len(closures') = Len(closures) + 1
           /\ NewEntry.cl = Len(closures')
           /\ \A c \in 1..Len(closures) : closures'[c] = closures[c]
           /\ closures'[Len(closures')].bytes = 0
           /\ closures'[Len(closures')].mod = 0
           /\ closures'[Len(closures')].heap = << >>
           /\ closures'[Len(closures')].pending = {}
           /\ closures'[Len(closures')].invs = << >>
           /\ closures'[Len(closures')].d = NewEntry.def.d
      /\ ~IsEntryStep => Len(closures') = Len(closures) ]_vars

\* the same definition was passed to InWasm twice; the first accessor has
\* cached its module, the second one was invoked as well and has none
C17_Witness ==
  /\ Len(entries) = 2
  /\ entries[1].def = entries[2].def
  /\ entries[1].loader = "InWasm"
  /\ entries[1].cl = 1 /\ entries[2].cl = 2
  /\ closures[1].mod # 0
  /\ Len(closures[2].invs) = 1
  /\ closures[2].bytes # 0
  /\ closures[2].mod = 0

\* closure cl has decoded nothing, called the host for nothing and holds nothing
Untouched(cl) ==
  /\ cl.bytes = 0 /\ cl.mod = 0
  /\ cl.heap = << >> /\ cl.pending = {}
  /\ cl.nDec = 0 /\ NCompiles(cl) = 0 /\ NInstantiations(cl) = 0

\* C18: InWasm is lazy. The entry-point call on a compiled definition decodes
\* nothing and starts no host operation; a closure's decode count and host
\* call counts only ever grow in a step that is an invocation of its
\* accessor; a closure whose accessor has not been invoked has both slots
\* unset, whatever else has happened.
C18_Lazy ==
  [][ /\ \A c \in 1..Len(closures') :
           (closures'[c].loader = "InWasm" /\ closures'[c].invs = << >>) =>
             Untouched(closures'[c])
      /\ \A c \in 1..Len(closures) :
           (closures[c].loader = "InWasm"
            /\ (closures'[c].nDec # closures[c].nDec
                \/ NCompiles(closures'[c]) # NCompiles(closures[c])
                \/ NInstantiations(closures'[c]) # NInstantiations(closures[c]))) =>
             IsInvokeOn(c) ]_vars

\* an InWasm accessor that was never invoked is untouched while the accessor
\* made after it has been invoked twice and has cached its module
C18_Witness ==
  /\ Len(closures) = 2
  /\ closures[1].loader = "InWasm"
  /\ closures[1].invs = << >>
  /\ Untouched(closures[1])
  /\ Len(closures[2].invs) = 2
  /\ closures[2].nDec = 1
  /\ closures[2].mod # 0

\* C19: decoding is a deterministic round trip. For every byte sequence b
\* (every length up to MaxBytes, every byte value), each decode of the base64
\* text of b succeeds and yields exactly b, on the platform-decoder path and on
\* the fallback path, so any two decodes of the same text yield equal bytes.
C19_RoundTrip ==
  /\ codec.encoded => Len(codec.s) = 4 * ((Len(codec.b) + 2) \div 3)
  /\ \A i \in 1..Len(codec.outs) :
       /\ codec.outs[i].ok
       /\ codec.outs[i].bytes = codec.b
  /\ \A i \in 1..Len(codec.outs) : \A j \in 1..Len(codec.outs) :
       codec.outs[i].bytes = codec.outs[j].bytes

\* the bytes 255 128 0 were encoded ("/4AA") and decoded once on each path
C19_Witness ==
  /\ codec.b = << 255, 128, 0 >>
  /\ codec.s = << 47, 52, 65, 65 >>
  /\ Len(codec.outs) = 2
  /\ codec.outs[1].buf /\ ~codec.outs[2].buf
  /\ codec.outs[1].bytes = << 255, 128, 0 >>
  /\ codec.outs[2].bytes = << 255, 128, 0 >>

BytesObjectsOf(cl) == {v \in 1..Len(cl.heap) : cl.heap[v].kind = "bytes"}

\* C20: for every output type and mode of InWasm, `d` is decoded at most once
\* per closure, whatever the sequence and interleaving of invocations,
\* completions and failures: the closure's decode count never exceeds one,
\* it has decoded exactly when its Bytes slot is set, the slot holds the one
\* bytes object the closure ever made, and every compile and
\* instantiate-from-bytes, first call or retry after a failure, was handed
\* that object.
C20_DecodeAtMostOnce ==
  \A c \in 1..Len(closures) :
    closures[c].loader = "InWasm" =>
      /\ closures[c].nDec <= 1
      /\ closures[c].nDec = 1 <=> closures[c].bytes # 0
      /\ BytesObjectsOf(closures[c]) = {closures[c].bytes} \ {0}
      /\ Len(closures[c].invs) > 0 => closures[c].nDec = 1
      /\ \A p \in closures[c].pending :
           p.kind \in {"compile", "instBytes"} => p.arg = closures[c].bytes
      /\ \A v \in ModulesOf(closures[c]) : closures[c].heap[v].src = closures[c].bytes

\* an INSTANCE SYNC accessor threw the host's compile failure and compiled
\* again on its next invocation, having decoded once
C20_Witness ==
  \E c \in 1..Len(closures) :
    /\ closures[c].loader = "InWasm"
    /\ IsKind(closures[c], OT_INSTANCE, TRUE)
    /\ Len(closures[c].invs) = 2
    /\ closures[c].invs[1].status = "threw"
    /\ closures[c].invs[1].path = "newModule"
    /\ closures[c].invs[2].status = "returned"
    /\ closures[c].nModule = 2
    /\ closures[c].nDec = 1

\* C21: in every reachable state of an InWasm closure, a set Module slot
\* implies a set Bytes slot: the slot holds a module object, that module was
\* compiled from the bytes object in the closure's Bytes slot, and the bytes
\* object is the older of the two (it was stored before the module was made).
\* The same holds of every module the closure's host operations produced.
C21_ModuleImpliesBytes ==
  \A c \in 1..Len(closures) :
    closures[c].loader = "InWasm" =>
      /\ closures[c].mod # 0 =>
           /\ closures[c].bytes # 0
           /\ KindOf(closures[c], closures[c].mod) = "module"
           /\ KindOf(closures[c], closures[c].bytes) = "bytes"
           /\ closures[c].heap[closures[c].mod].src = closures[c].bytes
           /\ closures[c].bytes < closures[c].mod
      /\ \A v \in ModulesOf(closures[c]) :
           /\ closures[c].bytes # 0
           /\ closures[c].heap[v].src = closures[c].bytes
           /\ closures[c].bytes < v

\* a MODULE SYNC accessor was invoked once and holds its bytes and, made
\* from them, its module
C21_Witness ==
  \E c \in 1..Len(closures) :
    /\ closures[c].loader = "InWasm"
    /\ IsKind(closures[c], OT_MODULE, TRUE)
    /\ Len(closures[c].invs) = 1
    /\ closures[c].bytes = 1
    /\ closures[c].mod = 2
    /\ closures[c].heap[2].src = 1
    /\ closures[c].heap[2].data = closures[c].heap[1].data

\* C22: the cache slots of an InWasm closure are monotonic: no step takes a
\* set Bytes slot or a set Module slot back to unset. The rejection of a host
\* operation leaves both slots exactly as they were, also when another
\* operation of the closure has already resolved and set the Module slot; and
\* an invocation that finds the Module slot set uses the module in it: MODULE
\* hands it back without a host call, INSTANCE instantiates it.
C22_SlotsMonotonic ==
  [][ \A c \in 1..Len(closures) :
        closures[c].loader = "InWasm" =>
          /\ closures[c].bytes # 0 => closures'[c].bytes # 0
          /\ closures[c].mod # 0 => closures'[c].mod # 0
          /\ \A p \in closures[c].pending :
               IsRejectOf(c, p) =>
                 /\ closures'[c].mod = closures[c].mod
                 /\ closures'[c].bytes = closures[c].bytes
          /\ (IsInvokeOn(c) /\ closures[c].mod # 0) =>
               /\ closures'[c].mod = closures[c].mod
               /\ NCompiles(closures'[c]) = NCompiles(closures[c])
               /\ TagIs(closures[c].t, OT_MODULE) =>
                    /\ NewInv(c).path = "cached"
                    /\ NewInv(c).val = closures[c].mod
                    /\ Started(c) = {}
               /\ (~TagIs(closures[c].t, OT_MODULE) /\ TruthyB(closures[c].s)
                   /\ NewInv(c).status = "returned") =>
                    closures'[c].heap[NewInv(c).val].src = closures[c].mod
               /\ (~TagIs(closures[c].t, OT_MODULE) /\ ~TruthyB(closures[c].s)) =>
                    \A p \in Started(c) : p.kind = "instMod" /\ p.arg = closures[c].mod ]_vars

\* two compiles of one MODULE ASYNC accessor were in flight together; one
\* resolved and set the Module slot, the other failed, and the slot still
\* holds the resolved module, which a third invocation was handed from the
\* cache without a compile
C22_Witness ==
  \E c \in 1..Len(closures) :
    /\ closures[c].loader = "InWasm"
    /\ IsKind(closures[c], OT_MODULE, FALSE)
    /\ Len(closures[c].invs) = 3
    /\ closures[c].nCompile = 2
    /\ closures[c].pending = {}
    /\ closures[c].invs[1].path = "compile"
    /\ closures[c].invs[1].status = "resolved"
    /\ closures[c].invs[2].path = "compile"
    /\ closures[c].invs[2].status = "rejected"
    /\ closures[c].invs[3].path = "cached"
    /\ closures[c].invs[3].status = "resolved"
    /\ closures[c].invs[3].val = closures[c].invs[1].val
    /\ closures[c].mod = closures[c].invs[1].val

\* the paths an INSTANCE accessor takes
InstancePaths == {"newModule", "newInstance", "instBytes", "instMod"}

\* C23: the dispatch of InWasm is total and falls through to INSTANCE. For
\* every compiled literal, whatever its tag and mode flag, the call returns an
\* accessor (it neither raises nor returns nothing nor hands the literal to
\* the capture context). An accessor whose tag is neither BYTES nor MODULE
\* (INSTANCE, missing, out of range) behaves as the INSTANCE accessor: its
\* invocations compile and instantiate, and what they yield is an instance.
\* The mode follows the truthiness of `s`: an invocation hands back a future
\* exactly when `s` is false or missing.
C23_FallsThroughToInstance ==
  [][ /\ (IsEntryStep /\ NewEntry.loader = "InWasm" /\ NonEmptyD(NewEntry.def)) =>
           /\ NewEntry.outcome = "accessor"
           /\ Len(closures') = Len(closures) + 1
           /\ captured' = captured
           /\ closures'[Len(closures')].t = NewEntry.def.t
           /\ closures'[Len(closures')].s = NewEntry.def.s
      /\ \A c \in 1..Len(closures') :
           closures'[c].loader = "InWasm" =>
             \A i \in 1..Len(closures'[c].invs) :
               LET cl == closures'[c]
                   inv == cl.invs[i] IN
               /\ inv.future <=> ~(cl.s = Bool(TRUE))
               /\ (cl.t # Num(OT_BYTES) /\ cl.t # Num(OT_MODULE)) =>
                    /\ inv.path \in InstancePaths
                    /\ inv.status \in {"returned", "resolved"} =>
                         KindOf(cl, inv.val) = "instance"
               /\ cl.t = Num(OT_MODULE) =>
                    /\ inv.path \in {"cached", "newModule", "compile"}
                    /\ inv.status \in {"returned", "resolved"} =>
                         KindOf(cl, inv.val) = "module"
               /\ cl.t = Num(OT_BYTES) =>
                    /\ inv.path = "bytes"
                    /\ inv.status \in {"returned", "resolved"} =>
                         KindOf(cl, inv.val) = "bytes" ]_vars

\* a compiled literal without tag and without mode flag got an accessor whose
\* invocation handed back a future that resolved to an instance
C23_Witness ==
  \E c \in 1..Len(closures) :
    /\ closures[c].loader = "InWasm"
    /\ closures[c].t = UndefN
    /\ closures[c].s = UndefB
    /\ Len(closures[c].invs) >= 1
    /\ closures[c].invs[1].future
    /\ closures[c].invs[1].status = "resolved"
    /\ closures[c].invs[1].path = "instBytes"
    /\ KindOf(closures[c], closures[c].invs[1].val) = "instance"

\* the invocations of closure cl that yielded a value
Yielded(cl) == {i \in 1..Len(cl.invs) : cl.invs[i].status \in {"returned", "resolved"}}

\* C24: the older loader EmWasm decodes eagerly and memoizes no module. Every
\* EmWasm closure, invoked or not, has decoded `d` exactly once and holds the
\* one bytes object from the entry-point call; its Module slot stays unset.
\* For a tag other than BYTES every invocation, in either mode, calls the
\* host's compile (or from-bytes instantiate) on those bytes, so the number
\* of host compilations equals the number of invocations, and the values
\* yielded, and the modules behind them, are pairwise different objects. For
\* BYTES every invocation yields the one bytes object, whose content is what
\* InWasm's accessor decodes from the same `d`.
C24_EmWasmNoMemo ==
  \A c \in 1..Len(closures) :
    closures[c].loader = "EmWasm" =>
      LET cl == closures[c] IN
      /\ cl.nDec = 1
      /\ cl.bytes # 0
      /\ BytesObjectsOf(cl) = {cl.bytes}
      /\ cl.mod = 0
      /\ TagIs(cl.t, OT_BYTES) =>
           /\ NCompiles(cl) = 0
           /\ \A i \in 1..Len(cl.invs) :
                /\ cl.invs[i].val = cl.bytes
                /\ cl.invs[i].future <=> ~TruthyB(cl.s)
           /\ \A buf \in BOOLEAN :
                Dec(cl.d.cs, buf) = [ok |-> TRUE, bytes |-> cl.heap[cl.bytes].data]
      /\ ~TagIs(cl.t, OT_BYTES) =>
           /\ NCompiles(cl) = Len(cl.invs)
           /\ cl.nInstMod = 0
           /\ \A p \in cl.pending : p.arg = cl.bytes
           /\ \A v \in ModulesOf(cl) : cl.heap[v].src = cl.bytes
           /\ \A i \in Yielded(cl) : \A j \in Yielded(cl) :
                i # j =>
                  /\ cl.invs[i].val # cl.invs[j].val
                  /\ ModuleBehind(cl, cl.invs[i].val) # ModuleBehind(cl, cl.invs[j].val)

\* two invocations of one MODULE SYNC accessor of EmWasm returned two module
\* objects, both compiled from the bytes decoded once in the entry-point call
C24_Witness ==
  \E c \in 1..Len(closures) :
    /\ closures[c].loader = "EmWasm"
    /\ IsKind(closures[c], OT_MODULE, TRUE)
    /\ Len(closures[c].invs) = 2
    /\ closures[c].invs[1].status = "returned"
    /\ closures[c].invs[2].status = "returned"
    /\ closures[c].invs[1].val # closures[c].invs[2].val
    /\ closures[c].nModule = 2
    /\ closures[c].nDec = 1

====
